---- MODULE Spec2Model ----
(***************************************************************************)
(* The SAS backend of spinta: the SQL compiler overrides (dialect.py), the *)
(* type mapping and its cache (helpers.py), the catalog introspection      *)
(* (introspection.py) and the column resolution (commands/column.py).      *)
(*                                                                         *)
(* Each component is a state machine of its own; the variable `unit` names *)
(* the component a behaviour exercises, and the other components' state    *)
(* stays as constructed.                                                   *)
(***************************************************************************)
EXTENDS Integers, Sequences, FiniteSets, TLC

VARIABLES
    unit,       \* the component under exercise
    \* ---- SASCompiler (dialect.py)
    hasLimit,   \* hasattr(self, "_sas_current_limit")
    curLimit,   \* self._sas_current_limit: {} is None, {n} is the integer n
    stack,      \* the active visit_select calls, innermost last
    rendered,   \* the piece of text the last step added to the output, if any
    cstate,     \* "idle" | "run" | "raise" | "done" | "failed"
    lastExit    \* the visit_select call that ended last: how, depth, its limit

compilerVars == <<hasLimit, curLimit, stack, rendered, cstate, lastExit>>

VARIABLES
    \* ---- map_sas_type_to_sqlalchemy (helpers.py)
    cache,      \* the shared cache dict: a set of [key, value] entries
    call        \* the last map_sas_type_to_sqlalchemy call: arguments and outcome

typeVars == <<cache, call>>

VARIABLES
    \* ---- SASIntrospectionMixin (introspection.py)
    intro       \* the last introspection call: method, query, outcome, value

VARIABLES
    \* ---- get_column (commands/column.py)
    col         \* the last get_column call: arguments, outcome, table access

VARIABLES
    \* ---- SAS.get_table (components.py)
    backend,    \* the SAS backend: dbschema, schema.tables, reflection queries made
    got         \* the last get_table call: name, outcome, table, provider queried

tableVars == <<backend, got>>

VARIABLES
    \* ---- SASDialect connection handling (dialect.py)
    conn,       \* the last create_connect_args call: url and what it returned
    handles,    \* the DBAPI connections: closed, autocommit, operations called
    hook        \* the last transaction hook called: name, handle, raised, count

connVars == <<conn, handles, hook>>

VARIABLES
    \* ---- SASDialect (dialect.py)
    default_schema_name     \* self.default_schema_name: None or a library name

VARIABLES
    \* ---- map_sas_type_to_sqlalchemy called from several threads (helpers.py)
    threads     \* each thread's call: position in the function, triple, locals

\* the state of the components written after the first four
restVars == <<tableVars, connVars, default_schema_name, threads>>

vars == <<unit, compilerVars, typeVars, intro, col, restVars>>

(***************************************************************************)
(* Bounds of the model.                                                    *)
(***************************************************************************)
MaxLimit == 1      \* row limits are 0..MaxLimit, or absent
MaxDepth == 2      \* nesting depth of select statements
MaxItems == 2      \* members (tables, sub-selects) of one select's body
MaxLength == 9     \* integer column lengths are 0..MaxLength
MaxCache == 2      \* entries the shared type cache may hold
MaxRows == 2       \* rows a catalog query returns
MaxColumns == 2    \* columns of the table a property is resolved against
MaxQueries == 2    \* reflection queries counted per table name
MaxHandles == 2    \* DBAPI connections the hooks are called with
MaxHooks == 3      \* transaction hooks called in one behaviour
MaxThreads == 2    \* threads that share the dialect's type cache

None == {}
Some(v) == {v}
TheValue(o) == CHOOSE v \in o : TRUE

(***************************************************************************)
(* SASCompiler                                                             *)
(***************************************************************************)
Limits == {None} \cup {Some(n) : n \in 0..MaxLimit}
Offsets == {None, Some(1)}
Tables == { [schema |-> Some("lib"), name |-> "mytable"],
            [schema |-> None, name |-> "other"] }

\* getattr(self, "_sas_current_limit", None)
GetAttrLimit == IF hasLimit THEN curLimit ELSE None

\* SQLCompiler.visit_table of the host toolkit, as called through super():
\* a table is rendered only as a FROM member or a hint, with its schema when
\* use_schema is set and the table has one.
SuperVisitTable(table, asfrom, ashint, use_schema) ==
    IF asfrom \/ ashint
    THEN IF use_schema /\ table.schema # None
         THEN TheValue(table.schema) \o "." \o table.name
         ELSE table.name
    ELSE ""

\* the "(OBS=n)" option appended when the limit is set
ObsOption(limit) ==
    IF limit = None THEN "" ELSE " (OBS=" \o ToString(TheValue(limit)) \o ")"

\* SASCompiler.visit_table: the text it returns
VisitTableText(table, asfrom, ashint, use_schema) ==
    LET result == SuperVisitTable(table, asfrom, ashint, use_schema)
    IN  IF asfrom /\ hasLimit /\ curLimit # None
        THEN result \o ObsOption(curLimit)
        ELSE result

\* a limit_clause that renders the standard trailing clause
LimitClauseStandard(limit, offset) ==
    IF limit # None THEN " LIMIT " \o ToString(TheValue(limit)) ELSE " OFFSET 1"

\* SASCompiler.limit_clause
LimitClause(limit, offset) == ""

\* a visit_select that leaves its own limit in the field
RestoredKeepsInner(frame) == frame.limit

\* the value visit_select's finally block stores back
Restored(frame) == frame.old_limit

\* a visit_select that stores the statement's limit only when it has one
StoredLimitIfSet(limit) == IF limit = None THEN GetAttrLimit ELSE limit

\* the value visit_select stores in the field on entry (lines 91-92)
StoredLimit(limit) == limit

Top == stack[Len(stack)]

BodyOpen ==
    /\ unit = "compiler"
    /\ cstate = "run"
    /\ stack # <<>>
    /\ Top.n < MaxItems

NoExit == [how |-> "none", depth |-> 0, limit |-> None]

\* visit_select, lines 86-94: save the field, store the statement's limit;
\* called for the statement itself and, from inside a body, for a sub-select
VisitSelectEnter(limit) ==
    /\ unit = "compiler"
    /\ \/ cstate = "idle" /\ stack = <<>>
       \/ BodyOpen
    /\ Len(stack) < MaxDepth
    /\ LET old_limit == GetAttrLimit
           frame == [limit |-> limit, old_limit |-> old_limit,
                     entry |-> GetAttrLimit, n |-> 0]
           under == IF stack = <<>> THEN stack
                    ELSE [stack EXCEPT ![Len(stack)].n = @ + 1]
       IN  /\ stack' = Append(under, frame)
           /\ hasLimit' = TRUE
           /\ curLimit' = StoredLimit(limit)
    /\ cstate' = "run"
    /\ rendered' = <<>>
    /\ UNCHANGED <<restVars, col, intro, typeVars, unit, lastExit>>

\* visit_table, called by the host toolkit while the body of the innermost
\* select is compiled
VisitTable(table, asfrom, ashint, use_schema) ==
    /\ BodyOpen
    /\ rendered' = << [kind |-> "table", table |-> table, asfrom |-> asfrom,
                       ashint |-> ashint, use_schema |-> use_schema,
                       depth |-> Len(stack), ownLimit |-> Top.limit,
                       text |-> VisitTableText(table, asfrom, ashint, use_schema)] >>
    /\ stack' = [stack EXCEPT ![Len(stack)].n = @ + 1]
    /\ UNCHANGED <<restVars, col, intro, typeVars, unit, hasLimit, curLimit, cstate, lastExit>>

\* the end of a body: the host toolkit asks limit_clause for the trailing
\* clause of a statement that has a limit or an offset, then visit_select's
\* finally block restores the field and the call returns.  The offset is
\* read nowhere before this point.
VisitSelectReturn(offset) ==
    /\ unit = "compiler"
    /\ cstate = "run"
    /\ stack # <<>>
    /\ LET frame == Top
           rowLimiting == frame.limit # None \/ offset # None
       IN  /\ rendered' = IF rowLimiting
                          THEN << [kind |-> "limit_clause",
                                   table |-> [schema |-> None, name |-> ""],
                                   asfrom |-> FALSE, ashint |-> FALSE,
                                   use_schema |-> FALSE,
                                   depth |-> Len(stack), ownLimit |-> frame.limit,
                                   text |-> LimitClause(frame.limit, offset)] >>
                          ELSE <<>>
           /\ curLimit' = Restored(frame)
           /\ lastExit' = [how |-> "return", depth |-> Len(stack),
                           limit |-> frame.limit]
    /\ stack' = SubSeq(stack, 1, Len(stack) - 1)
    /\ cstate' = IF Len(stack) = 1 THEN "done" ELSE "run"
    /\ UNCHANGED <<restVars, col, intro, typeVars, unit, hasLimit>>

\* compiling the body raises
BodyRaises ==
    /\ unit = "compiler"
    /\ cstate = "run"
    /\ stack # <<>>
    /\ cstate' = "raise"
    /\ rendered' = <<>>
    /\ UNCHANGED <<restVars, col, intro, typeVars, unit, hasLimit, curLimit, stack, lastExit>>

\* the exception leaves one visit_select call: its finally block runs
VisitSelectUnwind ==
    /\ unit = "compiler"
    /\ cstate = "raise"
    /\ stack # <<>>
    /\ curLimit' = Restored(Top)
    /\ lastExit' = [how |-> "raise", depth |-> Len(stack), limit |-> Top.limit]
    /\ stack' = SubSeq(stack, 1, Len(stack) - 1)
    /\ cstate' = IF Len(stack) = 1 THEN "failed" ELSE "raise"
    /\ rendered' = <<>>
    /\ UNCHANGED <<restVars, col, intro, typeVars, unit, hasLimit>>

CompilerIdle ==
    /\ hasLimit = FALSE
    /\ curLimit = None
    /\ stack = <<>>
    /\ rendered = <<>>
    /\ cstate = "idle"
    /\ lastExit = NoExit

(***************************************************************************)
(* Text: a Python str is a sequence of one-character strings.              *)
(***************************************************************************)
LowerCase == <<"a","b","c","d","e","f","g","h","i","j","k","l","m",
               "n","o","p","q","r","s","t","u","v","w","x","y","z">>
UpperCase == <<"A","B","C","D","E","F","G","H","I","J","K","L","M",
               "N","O","P","Q","R","S","T","U","V","W","X","Y","Z">>
Digits == <<"0","1","2","3","4","5","6","7","8","9">>

IndexIn(c, alphabet) == CHOOSE i \in 1..Len(alphabet) : alphabet[i] = c
IsIn(c, alphabet) == \E i \in 1..Len(alphabet) : alphabet[i] = c

UpperChar(c) == IF IsIn(c, LowerCase) THEN UpperCase[IndexIn(c, LowerCase)] ELSE c
LowerChar(c) == IF IsIn(c, UpperCase) THEN LowerCase[IndexIn(c, UpperCase)] ELSE c

\* str.upper, str.lower
Upper(s) == [i \in 1..Len(s) |-> UpperChar(s[i])]
Lower(s) == [i \in 1..Len(s) |-> LowerChar(s[i])]

\* str.startswith
StartsWith(s, prefix) ==
    Len(prefix) <= Len(s) /\ SubSeq(s, 1, Len(prefix)) = prefix

\* sub in s
Contains(s, sub) ==
    \E i \in 0..(Len(s) - Len(sub)) : SubSeq(s, i + 1, i + Len(sub)) = sub

\* int(s) of a str of decimal digits; None stands for ValueError
RECURSIVE DigitsValue(_)
DigitsValue(s) ==
    IF s = <<>> THEN 0
    ELSE 10 * DigitsValue(SubSeq(s, 1, Len(s) - 1)) + (IndexIn(s[Len(s)], Digits) - 1)

IntOfStr(s) ==
    IF s # <<>> /\ \A i \in 1..Len(s) : IsIn(s[i], Digits)
    THEN Some(DigitsValue(s))
    ELSE None

(***************************************************************************)
(* map_sas_type_to_sqlalchemy (helpers.py)                                 *)
(***************************************************************************)
\* an Optional[str]
NoStr == [none |-> TRUE, s |-> <<>>]
Str(s) == [none |-> FALSE, s |-> s]

\* the length argument: None, an int or a str
NoLength == [k |-> "none", n |-> 0, s |-> <<>>]
IntLength(n) == [k |-> "int", n |-> n, s |-> <<>>]
StrLength(s) == [k |-> "str", n |-> 0, s |-> s]

ColTypes == { <<"n","u","m">>, <<"N","U","M">>, <<"c","h","a","r">>,
              <<"C","h","a","r">>, <<"d","a","t","e">> }

Lengths ==
    {NoLength} \cup {IntLength(n) : n \in 0..MaxLength}
    \cup {StrLength(s) : s \in { <<>>, <<"0">>, <<"4">>, <<"8">>, <<"1","2">>,
                                 <<"a","b","c">>, <<"7",".","5">> }}

Formats ==
    {NoStr} \cup {Str(s) : s \in {
        <<>>,
        <<"D","A","T","E","9",".">>,
        <<"d","a","t","e","9",".">>,
        <<"D","A","T","E","T","I","M","E","2","0",".">>,
        <<"d","a","t","e","t","i","m","e">>,
        <<"E","8","6","0","1","D","T","1","9",".">>,
        <<"E","8","6","0","1","D","A","1","0",".">>,
        <<"T","I","M","E","8",".">>,
        <<"E","8","6","0","1","T","M">>,
        <<"D","O","L","L","A","R","1","2",".","2">>,
        <<"N","L","M","N","Y">>,
        <<"Y","E","A","R","4",".">>,
        <<"M","M","D","D","Y","Y","1","0",".">>,
        <<"D","D","M","M","Y","Y">>,
        <<"B","E","S","T","1","2",".">>,
        <<"8",".","2">>,
        <<"Z","5">>,
        <<"$","H","E","X","1","6",".">>,
        <<"$","h","e","x","4",".">>,
        <<"X","$","H","E","X">>,
        <<"$","G","E","O","R","E","F">>,
        <<"$","g","e","o","r","e","f">>,
        <<"$","G","E","O","R","E","F",".">>,
        <<"$","C","H","A","R","1","0",".">> }}

Keys == [col_type : ColTypes, length : Lengths, format_str : Formats]

\* the resolved column types
Type(t) == [t |-> t, length |-> None]
SASStringType(length) == [t |-> "SASStringType", length |-> Some(length)]

\* `if length`: None, 0 and "" are false
Truthy(length) ==
    CASE length.k = "none" -> FALSE
      [] length.k = "int" -> length.n # 0
      [] length.k = "str" -> length.s # <<>>

\* int(length) of a true length; None stands for ValueError
IntOf(length) == IF length.k = "int" THEN Some(length.n) ELSE IntOfStr(length.s)

\* `int(length) if length else default`, default again on ValueError/TypeError
LengthOr(length, default) ==
    IF Truthy(length) /\ IntOf(length) # None THEN TheValue(IntOf(length)) ELSE default

\* a format that is compared as it was written
UpperFormatAsWritten(format_str) == format_str.s

\* line 46: format_str.upper() if format_str else ""
UpperFormat(format_str) ==
    IF format_str.none \/ format_str.s = <<>> THEN <<>> ELSE Upper(format_str.s)

DateKeywords == { <<"D","A","T","E">>, <<"Y","E","A","R">>,
                  <<"M","M","D","D","Y","Y">>, <<"D","D","M","M","Y","Y">>,
                  <<"E","8","6","0","1","D","A">> }
DatetimeKeywords == { <<"D","A","T","E","T","I","M","E">>,
                      <<"E","8","6","0","1","D","T">> }
TimeKeywords == { <<"T","I","M","E">>, <<"E","8","6","0","1","T","M">> }
CurrencyKeywords == { <<"D","O","L","L","A","R">>, <<"N","L","M","N","Y">> }

\* any(fmt in format_str for fmt in keywords)
AnyIn(keywords, f) == \E kw \in keywords : Contains(f, kw)

\* a numeric column that is an integer up to and including length 8
ShortNumericUpTo8(length_int, f) == length_int <= 8 /\ ~Contains(f, <<".">>)

\* line 83: length_int < 8 and '.' not in format_str
ShortNumeric(length_int, f) == length_int < 8 /\ ~Contains(f, <<".">>)

\* lines 45-90: the type computed for a triple
MapSasType(key) ==
    LET col_type == Lower(key.col_type)
        f == UpperFormat(key.format_str)
    IN  IF col_type = <<"c","h","a","r">>
        THEN IF StartsWith(f, <<"$","H","E","X">>) THEN Type("VARBINARY")
             ELSE IF f = <<"$","G","E","O","R","E","F">> THEN Type("TEXT")
             ELSE SASStringType(LengthOr(key.length, 255))
        ELSE IF col_type = <<"n","u","m">>
        THEN IF AnyIn(DateKeywords, f) THEN Type("SASDateType")
             ELSE IF AnyIn(DatetimeKeywords, f) THEN Type("SASDateTimeType")
             ELSE IF AnyIn(TimeKeywords, f) THEN Type("SASTimeType")
             ELSE IF AnyIn(CurrencyKeywords, f) THEN Type("NUMERIC")
             ELSE IF ShortNumeric(LengthOr(key.length, 8), f) THEN Type("INTEGER")
             ELSE Type("FLOAT")
        ELSE Type("TEXT")

\* a cache key that leaves the format out
CacheKeyNoFormat(key) == [key EXCEPT !.format_str = NoStr]

\* line 39: cache_key = (col_type, length, format_str)
CacheKey(key) == key

\* the cache argument: None, or the shared dict
NoCache == [present |-> FALSE, dict |-> {}]
TheCache == [present |-> TRUE, dict |-> cache]

\* `cache_key in cache`; on None it is a TypeError
InDict(c, k) ==
    IF ~c.present THEN "TypeError"
    ELSE IF \E e \in c.dict : e.key = k THEN "yes" ELSE "no"

\* line 42: cache is not None and cache_key in cache
CacheHit(c, k) == IF ~c.present THEN "no" ELSE InDict(c, k)

DictGet(dict, k) == (CHOOSE e \in dict : e.key = k).value
\* a store that keeps the new entry alone
DictSetAlone(dict, k, v) == {[key |-> k, value |-> v]}

DictSet(dict, k, v) == {e \in dict : e.key # k} \cup {[key |-> k, value |-> v]}

\* lines 38-96: the call, as the outcome and the dict it leaves
MapSasTypeCall(c, key) ==
    LET k == CacheKey(key)
        hit == CacheHit(c, k)
    IN  IF hit = "TypeError"
        THEN [outcome |-> "TypeError", value |-> Type("none"), hit |-> FALSE,
              dict |-> c.dict]
        ELSE IF hit = "yes"
        THEN [outcome |-> "return", value |-> DictGet(c.dict, k), hit |-> TRUE,
              dict |-> c.dict]
        ELSE LET sa_type == MapSasType(key)
             IN  [outcome |-> "return", value |-> sa_type, hit |-> FALSE,
                  dict |-> IF c.present THEN DictSet(c.dict, k, sa_type) ELSE c.dict]

NoCall == [args |-> [col_type |-> <<>>, length |-> NoLength, format_str |-> NoStr],
           cached |-> FALSE, hit |-> FALSE, outcome |-> "none",
           value |-> Type("none")]

\* the triples the calls that share the cache are made with
CacheKeys ==
    { k \in Keys :
        /\ k.col_type \in { <<"n","u","m">>, <<"c","h","a","r">> }
        /\ k.length \in { NoLength, IntLength(4), StrLength(<<"4">>) }
        /\ k.format_str \in { NoStr, Str(<<"D","A","T","E","9",".">>),
                              Str(<<"$","H","E","X","1","6",".">>) } }

\* map_sas_type_to_sqlalchemy(col_type, length, format_str): no cache
MapUncached(key) ==
    /\ unit \in {"typemap", "typecache"}
    /\ unit = "typemap" => call.outcome = "pending" /\ key = call.args
    /\ unit = "typecache" => key \in CacheKeys
    /\ LET r == MapSasTypeCall(NoCache, key)
       IN  call' = [args |-> key, cached |-> FALSE, hit |-> r.hit,
                    outcome |-> r.outcome, value |-> r.value]
    /\ UNCHANGED <<restVars, unit, cache, compilerVars, intro, col>>

\* map_sas_type_to_sqlalchemy(col_type, length, format_str, cache)
MapCached(key) ==
    /\ unit = "typecache"
    /\ key \in CacheKeys
    /\ (\E e \in cache : e.key = CacheKey(key)) \/ Cardinality(cache) < MaxCache
    /\ LET r == MapSasTypeCall(TheCache, key)
       IN  /\ call' = [args |-> key, cached |-> TRUE, hit |-> r.hit,
                       outcome |-> r.outcome, value |-> r.value]
           /\ cache' = r.dict
    /\ UNCHANGED <<restVars, unit, compilerVars, intro, col>>

TypeMapIdle ==
    /\ cache = {}
    /\ call = NoCall

(***************************************************************************)
(* SASIntrospectionMixin (introspection.py)                                *)
(***************************************************************************)
\* a value as the JDBC bridge hands it over: None, bytes, str or int
RawNone == [k |-> "none", s |-> <<>>, n |-> 0]
RawBytes(s) == [k |-> "bytes", s |-> s, n |-> 0]
RawStr(s) == [k |-> "str", s |-> s, n |-> 0]
RawInt(n) == [k |-> "int", s |-> <<>>, n |-> n]

\* str(n) of a natural number
RECURSIVE NatToStr(_)
NatToStr(n) ==
    IF n < 10 THEN <<Digits[n + 1]>>
    ELSE NatToStr(n \div 10) \o <<Digits[(n % 10) + 1]>>

\* _safe_value_to_str: None stays None, bytes are decoded, the rest is str(value)
SafeValueToStr(v) ==
    CASE v.k = "none" -> NoStr
      [] v.k \in {"bytes", "str"} -> Str(v.s)
      [] v.k = "int" -> Str(NatToStr(v.n))

\* str.strip
RECURSIVE LStrip(_)
LStrip(s) == IF s # <<>> /\ Head(s) = " " THEN LStrip(Tail(s)) ELSE s
RECURSIVE RStrip(_)
RStrip(s) ==
    IF s # <<>> /\ s[Len(s)] = " " THEN RStrip(SubSeq(s, 1, Len(s) - 1)) ELSE s
Strip(s) == LStrip(RStrip(s))

\* str.replace("'", "''")
RECURSIVE DoubleQuotes(_)
DoubleQuotes(s) ==
    IF s = <<>> THEN <<>>
    ELSE (IF Head(s) = "'" THEN <<"'", "'">> ELSE <<Head(s)>>) \o DoubleQuotes(Tail(s))

\* an escape that leaves single quotes as they are
EscapeParamAsIs(value) == IF value.none THEN <<>> ELSE value.s

\* _escape_param
EscapeParam(value) == IF value.none THEN <<>> ELSE DoubleQuotes(value.s)

\* self.default_schema_name of the dialect
DefaultSchemaName == default_schema_name

\* if schema is None: schema = self.default_schema_name
\* libname_val = self._escape_param(schema.upper() if schema else '')
LibnameVal(schema) ==
    LET sch == IF schema.none THEN DefaultSchemaName ELSE schema
    IN  EscapeParam(IF sch.none \/ sch.s = <<>> THEN Str(<<>>) ELSE Str(Upper(sch.s)))

\* the outcome of a piece of code: a value, or an exception
Value(v) == [exc |-> FALSE, value |-> v]
Raised == [exc |-> TRUE, value |-> <<>>]

\* memname_val = self._escape_param(table_name.upper()): None has no upper()
MemnameVal(table_name) ==
    IF table_name.none THEN Raised ELSE Value(EscapeParam(Str(Upper(table_name.s))))

\* what connection.execute(query) does: raise, or hand back rows
ExecRaises == [raises |-> TRUE, rows |-> <<>>]
ExecRows(rows) == [raises |-> FALSE, rows |-> rows]

\* a call that lets the failure of its body through
Propagates(body, empty) ==
    IF body.exc THEN [outcome |-> "raise", value |-> empty, failed |-> TRUE]
    ELSE [outcome |-> "return", value |-> body.value, failed |-> FALSE]

\* try: <body>  except Exception: log, return <empty>
TryExcept(body, empty) ==
    IF body.exc THEN [outcome |-> "return", value |-> empty, failed |-> TRUE]
    ELSE [outcome |-> "return", value |-> body.value, failed |-> FALSE]

\* [self._safe_value_to_str(row[0]) for row in result]
RECURSIVE FirstColumn(_)
FirstColumn(rows) ==
    IF rows = <<>> THEN <<>>
    ELSE <<SafeValueToStr(Head(rows)[1])>> \o FirstColumn(Tail(rows))

\* [self._safe_value_to_str(row[0]).strip() for row in result]: None has no strip()
RECURSIVE FirstColumnStripped(_)
FirstColumnStripped(rows) ==
    IF rows = <<>> THEN Value(<<>>)
    ELSE LET v == SafeValueToStr(Head(rows)[1])
             rest == FirstColumnStripped(Tail(rows))
         IN  IF v.none \/ rest.exc THEN Raised
             ELSE Value(<<Str(Strip(v.s))>> \o rest.value)

\* bool(value)
Bool(v) ==
    CASE v.k = "none" -> FALSE
      [] v.k \in {"bytes", "str"} -> v.s # <<>>
      [] v.k = "int" -> v.n # 0

\* get_columns, lines 122-144: the rows in order, through the dialect's type
\* cache; a failing row leaves the entries the rows before it stored
RECURSIVE ColumnsOf(_, _)
ColumnsOf(rows, dict) ==
    IF rows = <<>> THEN [exc |-> FALSE, value |-> <<>>, dict |-> dict]
    ELSE LET row == Head(rows)
             col_name == SafeValueToStr(row[1])
             col_type == SafeValueToStr(row[2])
             col_length == SafeValueToStr(row[3])
             col_format == SafeValueToStr(row[4])
             col_label == SafeValueToStr(row[5])
             col_notnull == IF row[6].k # "none" THEN Bool(row[6]) ELSE FALSE
         IN  IF col_type.none
             THEN [exc |-> TRUE, value |-> <<>>, dict |-> dict]
             ELSE LET key == [col_type |-> col_type.s,
                              length |-> IF col_length.none THEN NoLength
                                         ELSE StrLength(col_length.s),
                              format_str |-> col_format]
                      r == MapSasTypeCall([present |-> TRUE, dict |-> dict], key)
                      info == [name |-> col_name, type |-> r.value,
                               nullable |-> ~col_notnull,
                               comment |-> IF col_label.none \/ col_label.s = <<>>
                                           THEN NoStr ELSE col_label]
                      rest == ColumnsOf(Tail(rows), r.dict)
                  IN  IF rest.exc THEN [rest EXCEPT !.value = <<>>]
                      ELSE [rest EXCEPT !.value = <<info>> \o @]

\* get_indexes, lines 176-187: one entry per index name, in order of first
\* appearance, with its columns in row order
RECURSIVE IndexesOf(_, _)
IndexesOf(rows, indexes) ==
    IF rows = <<>> THEN indexes
    ELSE LET row == Head(rows)
             idx_name == SafeValueToStr(row[1])
             col_name == SafeValueToStr(row[2])
             is_unique == IF row[3].k # "none" THEN Bool(row[3]) ELSE FALSE
             known == \E i \in 1..Len(indexes) : indexes[i].name = idx_name
             with == IF known THEN indexes
                     ELSE Append(indexes, [name |-> idx_name, column_names |-> <<>>,
                                           unique |-> is_unique])
             added == [i \in 1..Len(with) |->
                          IF with[i].name = idx_name
                          THEN [with[i] EXCEPT !.column_names = Append(@, col_name)]
                          ELSE with[i]]
         IN  IndexesOf(Tail(rows), added)

\* int(value): None is a TypeError, text that is no number a ValueError
IntOfRaw(v) ==
    CASE v.k = "none" -> None
      [] v.k \in {"bytes", "str"} -> IntOfStr(Strip(v.s))
      [] v.k = "int" -> Some(v.n)

NoComment == [text |-> NoStr]
NoPk == [constrained_columns |-> <<>>, name |-> NoStr]

\* the WHERE clause of a catalog query as it is sent: the fixed text in
\* pieces, every interpolated value character by character
LibnameCondition(libname_val) == <<"WHERE libname = ", "'">> \o libname_val \o <<"'">>
MemnameCondition(memname_val) == <<" AND memname = ", "'">> \o memname_val \o <<"'">>

NoQuery == [view |-> "", schema |-> NoStr, table_name |-> NoStr,
            libname |-> <<>>, memname |-> <<>>, text |-> <<>>]

\* a query by schema: WHERE libname = '{libname_val}' <rest>
SchemaQuery(view, rest, schema) ==
    [view |-> view, schema |-> schema, table_name |-> NoStr,
     libname |-> LibnameVal(schema), memname |-> <<>>,
     text |-> LibnameCondition(LibnameVal(schema)) \o <<rest>>]

\* a query by schema and table:
\* WHERE libname = '{libname_val}' AND memname = '{memname_val}' <rest>;
\* no query is built when table_name.upper() raises
TableQuery(view, rest, schema, table_name) ==
    LET mem == MemnameVal(table_name)
    IN  [view |-> view, schema |-> schema, table_name |-> table_name,
         libname |-> LibnameVal(schema), memname |-> mem.value,
         text |-> IF mem.exc THEN <<>>
                  ELSE LibnameCondition(LibnameVal(schema))
                           \o MemnameCondition(mem.value) \o <<rest>>]
NoIntro == [method |-> "none", query |-> NoQuery, outcome |-> "none",
            failed |-> FALSE, value |-> <<>>]

Done(method, query, r) ==
    [method |-> method, query |-> query, outcome |-> r.outcome,
     failed |-> r.failed, value |-> r.value]

\* the dialect is free for the next introspection call
Introspecting == unit = "introspect" /\ intro.method = "none"

\* the host toolkit takes the result of the call
ResultTaken ==
    /\ unit = "introspect"
    /\ intro.method # "none"
    /\ intro' = NoIntro
    /\ UNCHANGED <<restVars, unit, compilerVars, typeVars, col>>

\* get_schema_names, lines 36-46
GetSchemaNames(exec) ==
    /\ Introspecting
    /\ LET body == IF exec.raises THEN Raised ELSE Value(FirstColumn(exec.rows))
       IN  intro' = Done("get_schema_names",
                         [NoQuery EXCEPT !.view = "dictionary.libnames"],
                         TryExcept(body, <<>>))
    /\ UNCHANGED <<restVars, unit, compilerVars, typeVars, col>>

\* get_table_names, lines 48-71, and get_view_names, lines 73-93: the same
\* code for memtype 'DATA' and 'VIEW'
NamesOf(method, memtype, schema, exec) ==
    /\ Introspecting
    /\ LET body == IF exec.raises THEN Raised ELSE FirstColumnStripped(exec.rows)
       IN  intro' = Done(method,
                         SchemaQuery("dictionary.tables",
                                     " AND memtype = '" \o memtype \o "' ORDER BY memname",
                                     schema),
                         TryExcept(body, <<>>))
    /\ UNCHANGED <<restVars, unit, compilerVars, typeVars, col>>

GetTableNames(schema, exec) == NamesOf("get_table_names", "DATA", schema, exec)

GetViewNames(schema, exec) == NamesOf("get_view_names", "VIEW", schema, exec)

\* get_columns, lines 95-149
GetColumns(table_name, schema, exec) ==
    /\ Introspecting
    /\ LET mem == MemnameVal(table_name)
           cols == ColumnsOf(exec.rows, cache)
           ran == ~mem.exc /\ ~exec.raises
           body == IF ran THEN [exc |-> cols.exc, value |-> cols.value] ELSE Raised
       IN  /\ intro' = Done("get_columns",
                            TableQuery("dictionary.columns", " ORDER BY varnum", schema, table_name),
                            TryExcept(body, <<>>))
           /\ cache' = IF ran THEN cols.dict ELSE cache
    /\ UNCHANGED <<restVars, unit, compilerVars, call, col>>

\* get_pk_constraint, lines 151-152
GetPkConstraint(table_name, schema) ==
    /\ Introspecting
    /\ intro' = [NoIntro EXCEPT !.method = "get_pk_constraint",
                                !.outcome = "return", !.value = NoPk]
    /\ UNCHANGED <<restVars, unit, compilerVars, typeVars, col>>

\* get_foreign_keys, lines 154-155
GetForeignKeys(table_name, schema) ==
    /\ Introspecting
    /\ intro' = [NoIntro EXCEPT !.method = "get_foreign_keys",
                                !.outcome = "return", !.value = <<>>]
    /\ UNCHANGED <<restVars, unit, compilerVars, typeVars, col>>

\* get_indexes, lines 157-191
GetIndexes(table_name, schema, exec) ==
    /\ Introspecting
    /\ LET mem == MemnameVal(table_name)
           body == IF mem.exc \/ exec.raises THEN Raised
                   ELSE Value(IndexesOf(exec.rows, <<>>))
       IN  intro' = Done("get_indexes",
                         TableQuery("dictionary.indexes", " ORDER BY indxname, indxpos", schema, table_name),
                         TryExcept(body, <<>>))
    /\ UNCHANGED <<restVars, unit, compilerVars, typeVars, col>>

\* get_table_comment, lines 193-214: fetchone() is the first row, or None
GetTableComment(table_name, schema, exec) ==
    /\ Introspecting
    /\ LET mem == MemnameVal(table_name)
           body == IF mem.exc \/ exec.raises THEN Raised
                   ELSE IF exec.rows # <<>> /\ Bool(Head(exec.rows)[1])
                   THEN Value([text |-> Str(Strip(SafeValueToStr(Head(exec.rows)[1]).s))])
                   ELSE Value(NoComment)
       IN  intro' = Done("get_table_comment",
                         TableQuery("dictionary.tables", "", schema, table_name),
                         TryExcept(body, NoComment))
    /\ UNCHANGED <<restVars, unit, compilerVars, typeVars, col>>

\* has_table, lines 216-234
HasTable(table_name, schema, exec) ==
    /\ Introspecting
    /\ LET mem == MemnameVal(table_name)
           count == IF exec.rows = <<>> THEN None ELSE IntOfRaw(Head(exec.rows)[1])
           body == IF mem.exc \/ exec.raises THEN Raised
                   ELSE IF exec.rows = <<>> THEN Value(FALSE)
                   ELSE IF count = None THEN Raised
                   ELSE Value(TheValue(count) > 0)
       IN  intro' = Done("has_table",
                         TableQuery("dictionary.tables", " AND memtype = 'DATA'", schema, table_name),
                         TryExcept(body, FALSE))
    /\ UNCHANGED <<restVars, unit, compilerVars, typeVars, col>>

\* the arguments and the catalog's answers the calls are made with
SchemaArgs == { NoStr, Str(<<>>), Str(<<"l","i","b">>), Str(<<"o","'","b">>) }
TableArgs == { NoStr, Str(<<"t","1">>), Str(<<"a","'","'","b">>), Str(<<"b","'">>) }
DefaultSchemaNames == { NoStr, Str(<<"w","k">>) }

RowLists(rowSet) == UNION {[1..n -> rowSet] : n \in 0..MaxRows}

NameRows == { <<RawBytes(<<"T","1"," "," ">>)>>, <<RawStr(<<"V">>)>>, <<RawNone>> }
ColumnRows ==
    { <<RawBytes(<<"I","D">>), RawBytes(<<"n","u","m">>), RawInt(8), RawStr(<<>>),
        RawStr(<<>>), RawInt(1)>>,
      <<RawStr(<<"N","A","M","E">>), RawStr(<<"c","h","a","r">>), RawInt(20),
        RawStr(<<"$","H","E","X","1","6",".">>), RawStr(<<"N","a","m","e">>), RawNone>>,
      <<RawStr(<<"X">>), RawNone, RawNone, RawNone, RawNone, RawNone>> }
IndexRows ==
    { <<RawStr(<<"I","X">>), RawStr(<<"A">>), RawInt(1)>>,
      <<RawStr(<<"I","X">>), RawStr(<<"B">>), RawInt(1)>>,
      <<RawNone, RawStr(<<"C">>), RawNone>> }
CommentRows == { <<RawNone>>, <<RawStr(<<>>)>>, <<RawBytes(<<"L","a","b","e","l"," ">>)>> }
CountRows == { <<RawInt(0)>>, <<RawInt(1)>>, <<RawStr(<<"1">>)>>, <<RawNone>>,
               <<RawStr(<<"n","/","a">>)>> }

Answers(rowSet) == {ExecRaises} \cup {ExecRows(rows) : rows \in RowLists(rowSet)}

\* for the queries read with fetchone(): no row, or the first row
FirstRowAnswers(rowSet) ==
    {ExecRaises, ExecRows(<<>>)} \cup {ExecRows(<<row>>) : row \in rowSet}

IntrospectIdle == intro = NoIntro

(***************************************************************************)
(* get_column (commands/column.py)                                         *)
(***************************************************************************)
\* prop.external: None, or a mapping whose name is None or a str
NoExternal == [present |-> FALSE, name |-> NoStr]
External(name) == [present |-> TRUE, name |-> name]

\* not prop.external
ExternalMissing(external) == ~external.present

\* not prop.external.name: None and "" are false
NameMissing(external) == external.name.none \/ external.name.s = <<>>

\* a check that looks at the mapping only, not at its name
RaisesWithoutMappingOnly(external) == ExternalMissing(external)

\* line 31: not prop.external or not prop.external.name
DataTypeRaises(external) == ExternalMissing(external) \/ NameMissing(external)

\* line 40: not prop.external or not prop.external.name and not dtype.inherited
RefRaises(external, inherited) ==
    ExternalMissing(external) \/ (NameMissing(external) /\ ~inherited)

\* what get_column gives back: a column, None, or a raised exception
NoError == [model |-> "", property |-> "", external |-> <<>>]
Found(name) == [outcome |-> "return", column |-> Str(name), error |-> NoError]
ReturnsNone == [outcome |-> "return", column |-> NoStr, error |-> NoError]
NoExternalName == [outcome |-> "NoExternalName", column |-> NoStr, error |-> NoError]
PropertyNotFound(prop, name) ==
    [outcome |-> "PropertyNotFound", column |-> NoStr,
     error |-> [model |-> prop.model, property |-> prop.name, external |-> name]]

\* lines 15-25: the first column, in table order, whose name is the same in
\* upper case, else PropertyNotFound
FirstIgnoringCase(table, name, prop) ==
    IF \E i \in 1..Len(table) : Upper(table[i]) = Upper(name)
    THEN LET first == CHOOSE i \in 1..Len(table) :
                        /\ Upper(table[i]) = Upper(name)
                        /\ \A j \in 1..(i - 1) : Upper(table[j]) # Upper(name)
         IN  Found(table[first])
    ELSE PropertyNotFound(prop, name)

\* a lookup that skips the test for the very name
IgnoringCaseOnly(table, name, prop) == FirstIgnoringCase(table, name, prop)

\* _get_case_insensitive_column, lines 9-25: the column with this very name,
\* else the first whose name is the same in upper case, else PropertyNotFound
GetCaseInsensitiveColumn(table, name, prop) ==
    IF \E i \in 1..Len(table) : table[i] = name
    THEN Found(name)
    ELSE FirstIgnoringCase(table, name, prop)

NoProp == [model |-> "", name |-> ""]

NoColumnCall == [dtype |-> "none", prop |-> NoProp, inherited |-> FALSE,
                 external |-> NoExternal, table |-> <<>>, outcome |-> "none",
                 column |-> NoStr, accessed |-> FALSE, error |-> NoError]

ColumnCall(dtype, prop, inherited, external, table, r, accessed) ==
    [dtype |-> dtype, prop |-> prop, inherited |-> inherited,
     external |-> external, table |-> table, outcome |-> r.outcome,
     column |-> r.column, accessed |-> accessed, error |-> r.error]

\* get_column registered for (SAS, DataType), lines 28-34
GetColumnDataType(prop, inherited, external, table) ==
    /\ unit = "column"
    /\ col' = IF DataTypeRaises(external)
              THEN ColumnCall("DataType", prop, inherited, external, table,
                              NoExternalName, FALSE)
              ELSE ColumnCall("DataType", prop, inherited, external, table,
                              GetCaseInsensitiveColumn(table, external.name.s, prop), TRUE)
    /\ UNCHANGED <<restVars, unit, compilerVars, typeVars, intro>>

\* get_column registered for (SAS, Ref), lines 37-58
GetColumnRef(prop, inherited, external, table) ==
    /\ unit = "column"
    /\ col' = IF RefRaises(external, inherited)
              THEN ColumnCall("Ref", prop, inherited, external, table,
                              NoExternalName, FALSE)
              ELSE IF ~NameMissing(external)
              THEN ColumnCall("Ref", prop, inherited, external, table,
                              GetCaseInsensitiveColumn(table, external.name.s, prop), TRUE)
              ELSE ColumnCall("Ref", prop, inherited, external, table,
                              ReturnsNone, FALSE)
    /\ UNCHANGED <<restVars, unit, compilerVars, typeVars, intro>>

\* the properties and tables the calls are made with
Props == { [model |-> "City", name |-> "id"], [model |-> "Country", name |-> "code"] }
ColumnNames == { <<"i","d">>, <<"I","D">>, <<"I","d">>, <<"n","m">> }
Externals ==
    {NoExternal, External(NoStr), External(Str(<<>>))}
    \cup {External(Str(n)) : n \in {<<"i","d">>, <<"I","D">>, <<"z","z">>}}

\* table.c: columns in table order, no two with the same name
ColumnLists ==
    { t \in UNION {[1..n -> ColumnNames] : n \in 0..MaxColumns} :
        \A i, j \in 1..Len(t) : i # j => t[i] # t[j] }

ColumnIdle == col = NoColumnCall

(***************************************************************************)
(* SAS.get_table (components.py)                                           *)
(***************************************************************************)
\* a str that is neither None nor empty
NonEmpty(x) == ~x.none /\ x.s # <<>>

\* line 69: name or model.external.name
EffectiveName(name, external_name) == IF NonEmpty(name) THEN name.s ELSE external_name

\* lines 74-77: the key get_table looks the table up with
TableKey(effective_schema, name) ==
    IF NonEmpty(effective_schema)
    THEN effective_schema.s \o <<".">> \o name
    ELSE name

\* the key the host toolkit registers a Table under: the name alone when the
\* schema is None, schema + "." + name for every other schema, "" included
SaTableKey(name, schema) ==
    IF schema.none THEN name ELSE schema.s \o <<".">> \o name

\* self.schema.tables: the Table objects in insertion order, each with its key
NoTable == [key |-> <<>>, name |-> <<>>]
InTables(tables, key) == \E i \in 1..Len(tables) : tables[i].key = key
TableAt(tables, key) == tables[CHOOSE i \in 1..Len(tables) : tables[i].key = key]

\* a Table(...) call that reflects again a table the registry already holds
SaTableExtendExisting(tables, name, schema, reflects) ==
    IF reflects /\ ~InTables(tables, SaTableKey(name, schema))
    THEN [tables |-> Append(tables, [key |-> SaTableKey(name, schema), name |-> name]),
          raised |-> FALSE, queried |-> TRUE]
    ELSE [tables |-> tables, raised |-> ~reflects, queried |-> TRUE]

\* line 81: sa.Table(name, self.schema, autoload_with=self.engine, schema=...).
\* A table the registry holds under the toolkit's key is handed back as it is;
\* otherwise the table is reflected through the introspection provider and
\* registered, or, when reflection finds no such table, NoSuchTableError is
\* raised and the registry is left as it was.
SaTable(tables, name, schema, reflects) ==
    IF InTables(tables, SaTableKey(name, schema))
    THEN [tables |-> tables, raised |-> FALSE, queried |-> FALSE]
    ELSE IF reflects
    THEN [tables |-> Append(tables, [key |-> SaTableKey(name, schema), name |-> name]),
          raised |-> FALSE, queried |-> TRUE]
    ELSE [tables |-> tables, raised |-> TRUE, queried |-> TRUE]

\* lines 91-93: the first table, in registry order, whose name is the name
ScanByName(tables, name) ==
    IF \E i \in 1..Len(tables) : tables[i].name = name
    THEN LET first == CHOOSE i \in 1..Len(tables) :
                        /\ tables[i].name = name
                        /\ \A j \in 1..(i - 1) : tables[j].name # name
         IN  [outcome |-> "return", table |-> tables[first], tier |-> 3]
    ELSE [outcome |-> "KeyError", table |-> NoTable, tier |-> 3]

\* lines 84-94: the key, then the bare name, then the scan, then KeyError
Resolve(tables, key, name) ==
    IF InTables(tables, key)
    THEN [outcome |-> "return", table |-> TableAt(tables, key), tier |-> 1]
    ELSE IF InTables(tables, name)
    THEN [outcome |-> "return", table |-> TableAt(tables, name), tier |-> 2]
    ELSE ScanByName(tables, name)

NoGot == [name |-> <<>>, outcome |-> "none", table |-> NoTable, tier |-> 0,
          queried |-> FALSE]

\* SAS.get_table, lines 52-94
GetTable(external_name, name_arg, reflects) ==
    LET name == EffectiveName(name_arg, external_name)
        effective_schema == backend.dbschema
        key == TableKey(effective_schema, name)
        made == IF ~InTables(backend.tables, key)
                THEN SaTable(backend.tables, name, effective_schema, reflects)
                ELSE [tables |-> backend.tables, raised |-> FALSE, queried |-> FALSE]
        r == Resolve(made.tables, key, name)
    IN  /\ unit = "table"
        /\ made.queried => backend.queries[name] < MaxQueries
        /\ backend' = [backend EXCEPT
                          !.tables = made.tables,
                          !.queries[name] = @ + (IF made.queried THEN 1 ELSE 0)]
        /\ got' = IF made.raised
                  THEN [name |-> name, outcome |-> "NoSuchTableError", table |-> NoTable,
                        tier |-> 0, queried |-> TRUE]
                  ELSE [name |-> name, outcome |-> r.outcome, table |-> r.table,
                        tier |-> r.tier, queried |-> made.queried]
        /\ UNCHANGED <<unit, compilerVars, typeVars, intro, col, connVars, default_schema_name, threads>>

\* the backends and the calls made on them
TableNames == { <<"t">>, <<"T">>, <<"u">> }
DbSchemas == { NoStr, Str(<<>>), Str(<<"l","i","b">>) }
NameArgs == { NoStr, Str(<<>>), Str(<<"t">>), Str(<<"T">>) }

\* a backend as constructed: no table registered yet
NewBackend(dbschema) ==
    [dbschema |-> dbschema, tables |-> <<>>, queries |-> [n \in TableNames |-> 0]]

TableIdle == backend = NewBackend(NoStr) /\ got = NoGot

(***************************************************************************)
(* SASDialect.create_connect_args (dialect.py)                             *)
(***************************************************************************)
\* class attributes, lines 198-199
jdbc_db_name == "sasiom"
jdbc_driver_name == "com.sas.rio.MVADriver"

\* Path(__file__).parent
CurrentDir == "/spinta/datasets/backends/sql/backends/sas"

\* value or "": None and "" give ""
OrEmpty(o) == IF o = None THEN "" ELSE TheValue(o)

\* f"{url.host}": None is written as the text None
HostText(host) == IF host = None THEN "None" ELSE TheValue(host)

\* lines 343-346: the endpoint URL, from host and port
JdbcUrl(url) ==
    "jdbc:" \o jdbc_db_name \o "://" \o HostText(url.host)
        \o (IF url.port # None /\ TheValue(url.port) # 0
            THEN ":" \o ToString(TheValue(url.port))
            ELSE "")

\* driver properties that carry the library of the URL as well
DriverArgsWithLibname(url, log4j_exists) ==
    [user |-> OrEmpty(url.username),
     password |-> OrEmpty(url.password),
     applyFormats |-> "false",
     libname |-> IF url.database # None THEN url.database ELSE url.query.libname,
     log4j |-> IF log4j_exists
               THEN Some("file://" \o CurrentDir \o "/log4j.properties")
               ELSE None]

\* lines 355-378: driver_args; an absent property is None. The library of the
\* URL is not passed on (lines 361-363).
DriverArgs(url, log4j_exists) ==
    [user |-> OrEmpty(url.username),
     password |-> OrEmpty(url.password),
     applyFormats |-> "false",
     libname |-> None,
     log4j |-> IF log4j_exists
               THEN Some("file://" \o CurrentDir \o "/log4j.properties")
               ELSE None]

\* lines 386-394: kwargs; jars is set only when the log4j directory was found
ConnectKwargs(url, log4j_exists) ==
    [jclassname |-> jdbc_driver_name,
     url |-> JdbcUrl(url),
     driver_args |-> DriverArgs(url, log4j_exists),
     jars |-> IF log4j_exists THEN Some(<<CurrentDir>>) ELSE None]

NoUrl == [username |-> None, password |-> None, host |-> None, port |-> None,
          database |-> None, query |-> [libname |-> None, schema |-> None]]
NoKwargs == [jclassname |-> "", url |-> "", driver_args |-> DriverArgs(NoUrl, FALSE),
             jars |-> None]
NoConnect == [url |-> NoUrl, outcome |-> "none", args |-> <<>>, kwargs |-> NoKwargs]

\* SASDialect.create_connect_args, lines 326-401
CreateConnectArgs(url, log4j_exists) ==
    /\ unit = "connect"
    /\ conn' = [url |-> url, outcome |-> "return", args |-> <<>>,
                kwargs |-> ConnectKwargs(url, log4j_exists)]
    /\ UNCHANGED <<unit, compilerVars, typeVars, intro, col, tableVars, handles, hook,
                   default_schema_name, threads>>

\* the URLs make_url parses: user, password, host, port, path segment, query
Urls ==
    [username : {None, Some("user")},
     password : {None, Some("pass")},
     host : {None, Some("host")},
     port : {None, Some(1234)},
     database : {None, Some("mylib"), Some("MyLib")},
     query : [libname : {None, Some("mylib"), Some("MyLib")},
              schema : {None, Some("work")}]]

(***************************************************************************)
(* SASDialect.do_rollback, SASDialect.do_commit (dialect.py)               *)
(***************************************************************************)
Handles == 1..MaxHandles

NewHandle(autocommit) == [closed |-> FALSE, autocommit |-> autocommit, ops |-> <<>>]

\* a hook that passes the operation on to the connection, as the default
\* dialect does: the connection raises when it is closed
CallsConnection(dbapi_connection, op) ==
    [connection |-> [dbapi_connection EXCEPT !.ops = Append(@, op)],
     raised |-> dbapi_connection.closed]

\* lines 413-414 and 426-427: pass
Pass(dbapi_connection, op) == [connection |-> dbapi_connection, raised |-> FALSE]

NoHook == [name |-> "none", handle |-> 0, raised |-> FALSE, n |-> 0]

Hook(name, op, h) ==
    LET r == Pass(handles[h], op)
    IN  /\ unit = "hooks"
        /\ hook.n < MaxHooks
        /\ handles' = [handles EXCEPT ![h] = r.connection]
        /\ hook' = [name |-> name, handle |-> h, raised |-> r.raised, n |-> hook.n + 1]
        /\ UNCHANGED <<unit, compilerVars, typeVars, intro, col, tableVars, conn,
                       default_schema_name, threads>>

\* SASDialect.do_rollback, lines 403-414
DoRollback(h) == Hook("do_rollback", "rollback", h)

\* SASDialect.do_commit, lines 416-427
DoCommit(h) == Hook("do_commit", "commit", h)

\* the server or the pool closes a connection
HandleCloses(h) ==
    /\ unit = "hooks"
    /\ ~handles[h].closed
    /\ handles' = [handles EXCEPT ![h].closed = TRUE]
    /\ UNCHANGED <<unit, compilerVars, typeVars, intro, col, tableVars, conn, hook,
                   default_schema_name, threads>>

ConnectIdle ==
    /\ conn = NoConnect
    /\ handles = [h \in Handles |-> NewHandle(TRUE)]
    /\ hook = NoHook

(***************************************************************************)
(* map_sas_type_to_sqlalchemy called by several threads that share the     *)
(* dialect's cache without a lock (helpers.py 38-96, as called at          *)
(* introspection.py 131-132). A thread can be preempted between any two    *)
(* statements; one dict operation is one step.                             *)
(***************************************************************************)
Threads == 1..MaxThreads

\* not in the function
NotCalling == [pc |-> "idle", args |-> NoCall.args, sa_type |-> Type("none"),
               outcome |-> "none", value |-> Type("none")]

\* the call is made: cache_key is built, line 39
ThreadCalls(t, key) ==
    /\ unit = "threads"
    /\ threads[t].pc = "idle"
    /\ threads' = [threads EXCEPT ![t] = [NotCalling EXCEPT !.pc = "check", !.args = key]]
    /\ UNCHANGED <<unit, compilerVars, typeVars, intro, col, tableVars, connVars,
                   default_schema_name>>

\* line 42: if cache is not None and cache_key in cache
ThreadChecks(t) ==
    /\ unit = "threads"
    /\ threads[t].pc = "check"
    /\ threads' = [threads EXCEPT ![t].pc =
                      IF CacheHit(TheCache, CacheKey(threads[t].args)) = "yes"
                      THEN "get" ELSE "compute"]
    /\ UNCHANGED <<unit, compilerVars, typeVars, intro, col, tableVars, connVars,
                   default_schema_name>>

\* line 43: return cache[cache_key]; a key that is gone is a KeyError
ThreadGets(t) ==
    /\ unit = "threads"
    /\ threads[t].pc = "get"
    /\ threads' = [threads EXCEPT ![t] =
            IF InDict(TheCache, CacheKey(threads[t].args)) = "yes"
            THEN [@ EXCEPT !.pc = "done", !.outcome = "return",
                           !.value = DictGet(cache, CacheKey(threads[t].args))]
            ELSE [@ EXCEPT !.pc = "done", !.outcome = "KeyError"]]
    /\ UNCHANGED <<unit, compilerVars, typeVars, intro, col, tableVars, connVars,
                   default_schema_name>>

\* lines 45-90: sa_type is computed, on the thread's own locals
ThreadComputes(t) ==
    /\ unit = "threads"
    /\ threads[t].pc = "compute"
    /\ threads' = [threads EXCEPT ![t].pc = "store",
                                  ![t].sa_type = MapSasType(threads[t].args)]
    /\ UNCHANGED <<unit, compilerVars, typeVars, intro, col, tableVars, connVars,
                   default_schema_name>>

\* lines 93-96: cache[cache_key] = sa_type; return sa_type
ThreadStores(t) ==
    /\ unit = "threads"
    /\ threads[t].pc = "store"
    /\ cache' = DictSet(cache, CacheKey(threads[t].args), threads[t].sa_type)
    /\ threads' = [threads EXCEPT ![t].pc = "done", ![t].outcome = "return",
                                  ![t].value = threads[t].sa_type]
    /\ UNCHANGED <<unit, compilerVars, call, intro, col, tableVars, connVars,
                   default_schema_name>>

\* the caller takes the result
ThreadReturns(t) ==
    /\ unit = "threads"
    /\ threads[t].pc = "done"
    /\ threads' = [threads EXCEPT ![t] = NotCalling]
    /\ UNCHANGED <<unit, compilerVars, typeVars, intro, col, tableVars, connVars,
                   default_schema_name>>

\* the triples the threads call with: two differ in the format only
ThreadKeys ==
    { k \in CacheKeys :
        /\ k.length = IntLength(4)
        /\ \/ k.col_type = <<"n","u","m">> /\ k.format_str # Str(<<"$","H","E","X","1","6",".">>)
           \/ k.col_type = <<"c","h","a","r">> /\ k.format_str = NoStr }

ThreadsIdle == threads = [t \in Threads |-> NotCalling]

(***************************************************************************)
(* Specifications: one per component, and their union.                     *)
(***************************************************************************)
DialectIdle == default_schema_name = NoStr

RestIdle == TableIdle /\ ConnectIdle /\ DialectIdle /\ ThreadsIdle

InitCompiler == unit = "compiler" /\ CompilerIdle /\ TypeMapIdle /\ IntrospectIdle /\ ColumnIdle /\ RestIdle

NextCompiler ==
    \/ \E limit \in Limits : VisitSelectEnter(limit)
    \/ \E table \in Tables, asfrom \in BOOLEAN, ashint \in BOOLEAN, use_schema \in BOOLEAN :
            VisitTable(table, asfrom, ashint, use_schema)
    \/ \E offset \in Offsets : VisitSelectReturn(offset)
    \/ BodyRaises
    \/ VisitSelectUnwind

SpecCompiler == InitCompiler /\ [][NextCompiler]_vars

\* one call of the function for every triple
InitTypeMap ==
    /\ unit = "typemap"
    /\ CompilerIdle
    /\ cache = {}
    /\ \E key \in Keys : call = [NoCall EXCEPT !.args = key, !.outcome = "pending"]
    /\ IntrospectIdle
    /\ ColumnIdle /\ RestIdle

NextTypeMap == \E key \in Keys : MapUncached(key)

SpecTypeMap == InitTypeMap /\ [][NextTypeMap]_vars

InitTypeCache == unit = "typecache" /\ CompilerIdle /\ TypeMapIdle /\ IntrospectIdle /\ ColumnIdle /\ RestIdle

NextTypeCache ==
    \/ \E key \in CacheKeys : MapUncached(key)
    \/ \E key \in CacheKeys : MapCached(key)

SpecTypeCache == InitTypeCache /\ [][NextTypeCache]_vars

InitIntrospect ==
    /\ unit = "introspect"
    /\ CompilerIdle /\ TypeMapIdle /\ IntrospectIdle /\ ColumnIdle
    /\ TableIdle /\ ConnectIdle /\ ThreadsIdle
    /\ default_schema_name \in DefaultSchemaNames

NextIntrospect ==
    \/ \E exec \in Answers(NameRows) : GetSchemaNames(exec)
    \/ \E schema \in SchemaArgs, exec \in Answers(NameRows) : GetTableNames(schema, exec)
    \/ \E schema \in SchemaArgs, exec \in Answers(NameRows) : GetViewNames(schema, exec)
    \/ \E table_name \in TableArgs, schema \in SchemaArgs, exec \in Answers(ColumnRows) :
            GetColumns(table_name, schema, exec)
    \/ \E table_name \in TableArgs, schema \in SchemaArgs : GetPkConstraint(table_name, schema)
    \/ \E table_name \in TableArgs, schema \in SchemaArgs : GetForeignKeys(table_name, schema)
    \/ \E table_name \in TableArgs, schema \in SchemaArgs, exec \in Answers(IndexRows) :
            GetIndexes(table_name, schema, exec)
    \/ \E table_name \in TableArgs, schema \in SchemaArgs, exec \in FirstRowAnswers(CommentRows) :
            GetTableComment(table_name, schema, exec)
    \/ \E table_name \in TableArgs, schema \in SchemaArgs, exec \in FirstRowAnswers(CountRows) :
            HasTable(table_name, schema, exec)
    \/ ResultTaken

SpecIntrospect == InitIntrospect /\ [][NextIntrospect]_vars

InitColumn ==
    unit = "column" /\ CompilerIdle /\ TypeMapIdle /\ IntrospectIdle /\ ColumnIdle /\ RestIdle

NextColumn ==
    \/ \E prop \in Props, inherited \in BOOLEAN, external \in Externals,
          table \in ColumnLists :
            GetColumnDataType(prop, inherited, external, table)
    \/ \E prop \in Props, inherited \in BOOLEAN, external \in Externals,
          table \in ColumnLists :
            GetColumnRef(prop, inherited, external, table)

SpecColumn == InitColumn /\ [][NextColumn]_vars

InitTable ==
    /\ unit = "table"
    /\ CompilerIdle /\ TypeMapIdle /\ IntrospectIdle /\ ColumnIdle
    /\ \E dbschema \in DbSchemas : backend = NewBackend(dbschema)
    /\ got = NoGot
    /\ ConnectIdle /\ DialectIdle /\ ThreadsIdle

NextTable ==
    \E external_name \in TableNames, name_arg \in NameArgs, reflects \in BOOLEAN :
        GetTable(external_name, name_arg, reflects)

SpecTable == InitTable /\ [][NextTable]_vars

InitConnect ==
    /\ unit = "connect"
    /\ CompilerIdle /\ TypeMapIdle /\ IntrospectIdle /\ ColumnIdle /\ RestIdle

NextConnect ==
    \E url \in Urls, log4j_exists \in BOOLEAN : CreateConnectArgs(url, log4j_exists)

SpecConnect == InitConnect /\ [][NextConnect]_vars

\* the hooks are called on a dialect whose type cache may hold entries, with
\* connections in autocommit mode or not
InitHooks ==
    /\ unit = "hooks"
    /\ CompilerIdle /\ IntrospectIdle /\ ColumnIdle /\ TableIdle /\ DialectIdle
    /\ ThreadsIdle
    /\ call = NoCall
    /\ \E key \in {k \in CacheKeys : k.length = IntLength(4) /\ k.format_str = NoStr} :
            cache \in { {}, MapSasTypeCall([present |-> TRUE, dict |-> {}], key).dict }
    /\ conn = NoConnect
    /\ handles \in [Handles -> {NewHandle(autocommit) : autocommit \in BOOLEAN}]
    /\ hook = NoHook

NextHooks ==
    \/ \E h \in Handles : DoRollback(h)
    \/ \E h \in Handles : DoCommit(h)
    \/ \E h \in Handles : HandleCloses(h)

SpecHooks == InitHooks /\ [][NextHooks]_vars

InitThreads ==
    /\ unit = "threads"
    /\ CompilerIdle /\ TypeMapIdle /\ IntrospectIdle /\ ColumnIdle /\ RestIdle

NextThreads ==
    \E t \in Threads :
        \/ \E key \in ThreadKeys : ThreadCalls(t, key)
        \/ ThreadChecks(t)
        \/ ThreadGets(t)
        \/ ThreadComputes(t)
        \/ ThreadStores(t)
        \/ ThreadReturns(t)

SpecThreads == InitThreads /\ [][NextThreads]_vars

\* the union: every behaviour exercises the one component `unit` names
Init ==
    \/ InitCompiler \/ InitTypeMap \/ InitTypeCache \/ InitIntrospect \/ InitColumn
    \/ InitTable \/ InitConnect \/ InitHooks \/ InitThreads

Next ==
    \/ NextCompiler \/ NextTypeMap \/ NextTypeCache \/ NextIntrospect \/ NextColumn
    \/ NextTable \/ NextConnect \/ NextHooks \/ NextThreads

Spec == Init /\ [][Next]_vars

(***************************************************************************)
(* Claims about SASCompiler, checked under SpecCompiler.                   *)
(***************************************************************************)
Pieces == {rendered[i] : i \in 1..Len(rendered)}

\* C1: every table rendered as a FROM member of a select carries the
\* (OBS=n) option of that select's own limit, and none when the select has no
\* limit, whatever sub-selects were compiled before it or enclose it.
C1_OwnLimitOnly ==
    \A p \in Pieces :
        p.kind = "table" /\ p.asfrom =>
            p.text = SuperVisitTable(p.table, p.asfrom, p.ashint, p.use_schema)
                        \o ObsOption(p.ownLimit)

\* an outer table rendered after an inner sub-select with another limit ended
C1_Witness ==
    /\ rendered # <<>>
    /\ rendered[1].kind = "table"
    /\ rendered[1].asfrom
    /\ rendered[1].depth = 1
    /\ rendered[1].ownLimit # None
    /\ lastExit.how = "return"
    /\ lastExit.depth = 2
    /\ lastExit.limit \notin {None, rendered[1].ownLimit}

\* C2: when a visit_select call ends, by return or by exception, the
\* current-limit field has the value it had when the call began; with no call
\* active the field is None (or absent).
C2_FieldRestored ==
    /\ [](stack = <<>> => GetAttrLimit = None)
    /\ [][Len(stack') < Len(stack) => GetAttrLimit' = stack[Len(stack)].entry]_vars

\* a nested select with a limit was left by an exception
C2_Witness ==
    /\ cstate = "raise"
    /\ Len(stack) = 1
    /\ lastExit.how = "raise"
    /\ lastExit.depth = 2
    /\ lastExit.limit \notin {None, Top.limit}

\* C3: a statement with row limit n renders its FROM tables with (OBS=n),
\* and the trailing limit/offset clause is the empty text for every limit
\* and offset.
C3_ObsAndNoTrailingClause ==
    \A p \in Pieces :
        /\ p.kind = "table" /\ p.asfrom /\ p.ownLimit # None =>
                p.text = SuperVisitTable(p.table, p.asfrom, p.ashint, p.use_schema)
                            \o " (OBS=" \o ToString(TheValue(p.ownLimit)) \o ")"
        /\ p.kind = "limit_clause" => p.text = ""

\* the trailing clause of a statement with a limit was asked for
C3_Witness ==
    /\ rendered # <<>>
    /\ rendered[1].kind = "limit_clause"
    /\ rendered[1].ownLimit = Some(1)

\* C4: a table that has a schema is rendered as <schema>.<table> for every
\* use_schema the host toolkit passes.
C4_AlwaysQualified ==
    \A p \in Pieces :
        p.kind = "table" /\ (p.asfrom \/ p.ashint) /\ p.table.schema # None =>
            \E limit \in Limits :
                p.text = TheValue(p.table.schema) \o "." \o p.table.name
                            \o ObsOption(limit)

(***************************************************************************)
(* Claims about map_sas_type_to_sqlalchemy, checked under SpecTypeMap      *)
(* (C5-C7) and SpecTypeCache (C8).                                         *)
(***************************************************************************)
Returned == call.outcome = "return"
IsNumeric == Lower(call.args.col_type) = <<"n","u","m">>
IsCharacter == Lower(call.args.col_type) = <<"c","h","a","r">>

\* the format as the claims read it: upper-cased, empty when absent
FormatRead == Upper(call.args.format_str.s)

NoNumericKeyword ==
    ~AnyIn(DateKeywords \cup DatetimeKeywords \cup TimeKeywords \cup CurrencyKeywords,
           FormatRead)

\* the length as the claims read it: the declared integer, and the default
\* when it is absent or not an integer
DeclaredLengthOr(length, default) ==
    IF length.k = "none" \/ IntOf(length) = None THEN default
    ELSE TheValue(IntOf(length))

\* the same, with the integer 0 read as absent too
NonZeroLengthOr(length, default) ==
    IF length = IntLength(0) THEN default ELSE DeclaredLengthOr(length, default)

\* C5: a numeric column whose format contains DATETIME or E8601DT maps to
\* the datetime type, and one with format DATE9. to the date type.
C5_DatetimeKeywordGivesDatetime ==
    Returned /\ IsNumeric =>
        /\ AnyIn(DatetimeKeywords, FormatRead) => call.value = Type("SASDateTimeType")
        /\ FormatRead = <<"D","A","T","E","9",".">> => call.value = Type("SASDateType")

\* C6 as stated: a numeric column without a keyword is an integer exactly
\* when its declared length is below 8 and its format has no decimal point,
\* an absent or non-integer length counting as 8.
C6_IntegerIffShort ==
    Returned /\ IsNumeric /\ NoNumericKeyword =>
        call.value = IF DeclaredLengthOr(call.args.length, 8) < 8
                         /\ ~Contains(FormatRead, <<".">>)
                     THEN Type("INTEGER") ELSE Type("FLOAT")

\* C6 as amended: the same, with a length of 0 counting as 8 as well.
C6_IntegerIffShortNonZero ==
    Returned /\ IsNumeric /\ NoNumericKeyword =>
        call.value = IF NonZeroLengthOr(call.args.length, 8) < 8
                         /\ ~Contains(FormatRead, <<".">>)
                     THEN Type("INTEGER") ELSE Type("FLOAT")

\* a short numeric column without a format was mapped to the integer type
C6_Witness ==
    /\ Returned /\ IsNumeric
    /\ call.args.length = IntLength(4)
    /\ call.args.format_str = NoStr
    /\ call.value = Type("INTEGER")

\* C7 as stated: a character column maps to binary for a $HEX format, to
\* generic text for $GEOREF, and otherwise to text bounded by the declared
\* length, 255 when that is absent or not an integer; storage class and
\* format are matched ignoring case.
C7_CharacterRules ==
    Returned /\ IsCharacter =>
        call.value =
            IF StartsWith(FormatRead, <<"$","H","E","X">>) THEN Type("VARBINARY")
            ELSE IF FormatRead = <<"$","G","E","O","R","E","F">> THEN Type("TEXT")
            ELSE SASStringType(DeclaredLengthOr(call.args.length, 255))

\* C7 as amended: the same, with a length of 0 giving size 255 as well.
C7_CharacterRulesNonZero ==
    Returned /\ IsCharacter =>
        call.value =
            IF StartsWith(FormatRead, <<"$","H","E","X">>) THEN Type("VARBINARY")
            ELSE IF FormatRead = <<"$","G","E","O","R","E","F">> THEN Type("TEXT")
            ELSE SASStringType(NonZeroLengthOr(call.args.length, 255))

\* a column declared "Char" with a lower-case hex format was mapped to binary
C7_Witness ==
    /\ Returned
    /\ call.args.col_type = <<"C","h","a","r">>
    /\ call.args.format_str = Str(<<"$","h","e","x","4",".">>)
    /\ call.value = Type("VARBINARY")

\* C8: a call with the cache returns what the call without a cache returns
\* for the same triple, after any earlier calls; a call whose triple is a
\* cache key returns the stored value and leaves the cache unchanged; a
\* call without a cache returns and does not fail.
C8_CacheTransparent ==
    /\ [](call.outcome # "none" =>
            /\ call.outcome = "return"
            /\ call.value = MapSasTypeCall(NoCache, call.args).value)
    /\ [][call' # call /\ call'.hit =>
            /\ cache' = cache
            /\ [key |-> call'.args, value |-> call'.value] \in cache]_vars

\* a call found its triple in a cache that earlier calls had filled
C8_Witness ==
    /\ call.cached /\ call.hit
    /\ Cardinality(cache) = MaxCache
    /\ call.value = Type("INTEGER")

(***************************************************************************)
(* Claims about SASIntrospectionMixin, checked under SpecIntrospect.       *)
(***************************************************************************)
EmptyResult(method) ==
    CASE method = "get_table_comment" -> NoComment
      [] method = "has_table" -> FALSE
      [] method = "get_pk_constraint" -> NoPk
      [] OTHER -> <<>>

\* C9: no introspection method lets an exception out; when the query or the
\* processing of a row fails, or an argument is absent, the method returns
\* its empty result; get_pk_constraint and get_foreign_keys always return
\* the empty constraint and the empty list.
C9_NeverPropagates ==
    intro.method # "none" =>
        /\ intro.outcome = "return"
        /\ intro.failed => intro.value = EmptyResult(intro.method)
        /\ intro.method \in {"get_pk_constraint", "get_foreign_keys"} =>
                intro.value = EmptyResult(intro.method)

\* a get_columns call failed on a later row and returned [], after the type
\* of an earlier row had been cached
C9_Witness ==
    /\ intro.method = "get_columns"
    /\ intro.failed
    /\ intro.value = <<>>
    /\ cache # {}

(***************************************************************************)
(* Claims about get_column, checked under SpecColumn.                      *)
(***************************************************************************)
\* C10: resolving a property that has no external name (no mapping, or a
\* mapping without a name) and is not marked inherited raises
\* NoExternalName before the table's columns are looked at, for data types
\* and for relationship types, whatever the table holds.
C10_NoExternalNameFirst ==
    /\ col.dtype # "none"
    /\ ~col.external.present \/ col.external.name \in {NoStr, Str(<<>>)}
    /\ ~col.inherited
    => col.outcome = "NoExternalName" /\ ~col.accessed

\* a relationship property with a mapping but an empty name, not inherited,
\* was resolved against a table that has columns
C10_Witness ==
    /\ col.dtype = "Ref"
    /\ col.external = External(Str(<<>>))
    /\ ~col.inherited
    /\ Len(col.table) = MaxColumns

\* C11: a relationship property marked inherited that carries no external
\* name, its mapping missing altogether or present with an empty name,
\* resolves to no column (None): nothing is raised and the table is not
\* looked at.
C11_InheritedTolerated ==
    /\ col.dtype = "Ref"
    /\ col.inherited
    /\ ~col.external.present \/ col.external.name \in {NoStr, Str(<<>>)}
    => /\ col.outcome = "return"
       /\ col.column = NoStr
       /\ ~col.accessed

\* the positions of the table whose column has this very name, and those
\* whose column has it ignoring case
ExactMatches(table, name) == {i \in 1..Len(table) : table[i] = name}
CaseMatches(table, name) == {i \in 1..Len(table) : Upper(table[i]) = Upper(name)}
Lowest(S) == CHOOSE i \in S : \A j \in S : i <= j

\* C12: a lookup by external name returns the column of that very name when
\* the table has one, otherwise the first column in table order whose name
\* is the same ignoring case, and raises PropertyNotFound, carrying the
\* owning model, the property name and the external name, exactly when no
\* column matches ignoring case.
C12_ExactThenIgnoringCase ==
    col.accessed =>
        LET name == col.external.name.s
            exact == ExactMatches(col.table, name)
            anycase == CaseMatches(col.table, name)
        IN  /\ exact # {} =>
                col.outcome = "return" /\ col.column = Str(name)
            /\ exact = {} /\ anycase # {} =>
                col.outcome = "return" /\ col.column = Str(col.table[Lowest(anycase)])
            /\ col.outcome = "PropertyNotFound" <=> anycase = {}
            /\ col.outcome = "PropertyNotFound" =>
                col.error = [model |-> col.prop.model, property |-> col.prop.name,
                             external |-> name]

\* the column of the very name was returned although an earlier column of
\* the table has the same name ignoring case
C12_Witness ==
    /\ col.accessed
    /\ col.table = << <<"I","D">>, <<"i","d">> >>
    /\ col.external = External(Str(<<"i","d">>))
    /\ col.column = Str(<<"i","d">>)

(***************************************************************************)
(* Claims about SAS.get_table, checked under SpecTable.                    *)
(***************************************************************************)
\* the tables of a registry whose name is the name ignoring case
SameIgnoringCase(tables, name) ==
    {tables[i] : i \in {j \in 1..Len(tables) : Upper(tables[j].name) = Upper(name)}}

\* a get_table call was made in this step
GetTableCalled == got' # got \/ backend' # backend

\* C13: get_table tries the schema-qualified key, the bare name, then a scan
\* of the registry that ignores case, and raises KeyError only after all
\* three found nothing; so a call whose name differs only in letter case
\* from the name of a table the registry holds returns that table and
\* raises nothing.
C13_ScanIgnoresCase ==
    /\ [](got.outcome = "KeyError" => SameIgnoringCase(backend.tables, got.name) = {})
    /\ [][GetTableCalled /\ SameIgnoringCase(backend.tables, got'.name) # {} =>
            /\ got'.outcome = "return"
            /\ got'.table \in SameIgnoringCase(backend.tables, got'.name)]_vars

\* the table the registry holds for this name in the backend's library
Registered(tables, name) == InTables(tables, SaTableKey(name, backend.dbschema))
IsPrefix(a, b) == Len(a) <= Len(b) /\ \A i \in 1..Len(a) : a[i] = b[i]

\* no call removes or replaces a registered table, and a call for a
\* registered table returns it without a query to the provider
KeepsRegistered ==
    /\ IsPrefix(backend.tables, backend'.tables)
    /\ GetTableCalled /\ Registered(backend.tables, got'.name) =>
            /\ backend'.queries = backend.queries
            /\ ~got'.queried
            /\ got'.outcome = "return"
            /\ got'.table = TableAt(backend.tables, SaTableKey(got'.name, backend.dbschema))

\* C17 as claimed: over any sequence of get_table calls the provider is
\* queried at most once for a given (library, name): the first call that
\* finds the key missing registers the table, later calls return the
\* registered table without a query, and no call removes or replaces a
\* registered table.
C17_QueriedAtMostOnce ==
    /\ [](\A n \in TableNames : backend.queries[n] <= 1)
    /\ [][GetTableCalled /\ ~Registered(backend.tables, got'.name) =>
            Registered(backend'.tables, got'.name)]_vars
    /\ [][KeepsRegistered]_vars

\* C17 as amended: a table is registered at most once; a call that finds it
\* missing queries the provider and either registers and returns it or
\* raises with the registry as it was; once it is registered every call
\* returns it without a query, and no call removes or replaces a registered
\* table.
C17_RegisteredAtMostOnce ==
    /\ [](\A i, j \in 1..Len(backend.tables) :
            backend.tables[i].key = backend.tables[j].key => i = j)
    /\ [][GetTableCalled /\ ~Registered(backend.tables, got'.name) =>
            /\ got'.queried
            /\ backend'.queries[got'.name] = backend.queries[got'.name] + 1
            /\ \/ /\ got'.outcome = "return"
                  /\ got'.table = [key |-> SaTableKey(got'.name, backend.dbschema),
                                   name |-> got'.name]
                  /\ backend'.tables = Append(backend.tables, got'.table)
               \/ /\ got'.outcome = "NoSuchTableError"
                  /\ backend'.tables = backend.tables]_vars
    /\ [][KeepsRegistered]_vars

\* a table that was registered at the second query, the first having failed,
\* is returned from the registry, which holds another table as well
C17_Witness ==
    /\ got.outcome = "return"
    /\ ~got.queried
    /\ backend.queries[got.name] = 2
    /\ Len(backend.tables) = 2
    /\ backend.dbschema = Str(<<>>)

(***************************************************************************)
(* Claims about create_connect_args (SpecConnect) and the transaction      *)
(* hooks (SpecHooks).                                                      *)
(***************************************************************************)
\* the library a URL names: the path segment first, then the libname parameter
UrlLibname(url) == IF url.database # None THEN url.database ELSE url.query.libname

\* C14: create_connect_args places the library name of the URL, given as
\* the path segment or as the libname query parameter, under
\* driver_args["libname"] with its case preserved, the same value in both
\* forms; the endpoint URL is built from host and port only.
C14_LibnameDriverProperty ==
    conn.outcome = "return" =>
        /\ conn.url.host # None /\ conn.url.port # None =>
                conn.kwargs.url = "jdbc:sasiom://" \o TheValue(conn.url.host) \o ":"
                                      \o ToString(TheValue(conn.url.port))
        /\ UrlLibname(conn.url) # None =>
                conn.kwargs.driver_args.libname = UrlLibname(conn.url)

\* C15: do_commit and do_rollback never raise, call no operation on the
\* connection and leave the connection and the dialect as they were, for
\* every connection, open or closed, after any earlier hooks.
C15_HooksAreNoOps ==
    /\ [](~hook.raised)
    /\ [](\A h \in Handles : handles[h].ops = <<>>)
    /\ [][hook' # hook => handles' = handles /\ cache' = cache /\ conn' = conn]_vars

\* the last of several hooks was a commit on a connection that had been
\* closed and was not in autocommit mode, on a dialect with a filled cache
C15_Witness ==
    /\ hook.name = "do_commit"
    /\ hook.n = MaxHooks
    /\ handles[hook.handle].closed
    /\ ~handles[hook.handle].autocommit
    /\ cache # {}

(***************************************************************************)
(* Claims about the catalog queries, checked under SpecIntrospect.         *)
(***************************************************************************)
\* reading an SQL string literal from the character after its opening
\* quote: two quotes in a row are one quote of the value, a single quote
\* closes the literal
RECURSIVE ScanLiteral(_)
ScanLiteral(s) ==
    IF s = <<>> THEN [closed |-> FALSE, value |-> <<>>, rest |-> <<>>]
    ELSE IF Head(s) # "'"
    THEN LET r == ScanLiteral(Tail(s))
         IN  [r EXCEPT !.value = <<Head(s)>> \o @]
    ELSE IF Len(s) >= 2 /\ s[2] = "'"
    THEN LET r == ScanLiteral(Tail(Tail(s)))
         IN  [r EXCEPT !.value = <<"'">> \o @]
    ELSE [closed |-> TRUE, value |-> <<>>, rest |-> Tail(s)]

\* the methods that take a schema, and those that take a table name as well
BySchema == {"get_table_names", "get_view_names"}
ByTable == {"get_columns", "get_indexes", "get_table_comment", "has_table"}

\* the text a query ends with, after its last interpolated literal
FixedRest(method) ==
    CASE method = "get_table_names" -> " AND memtype = 'DATA' ORDER BY memname"
      [] method = "get_view_names" -> " AND memtype = 'VIEW' ORDER BY memname"
      [] method = "get_columns" -> " ORDER BY varnum"
      [] method = "get_indexes" -> " ORDER BY indxname, indxpos"
      [] method = "get_table_comment" -> ""
      [] method = "has_table" -> " AND memtype = 'DATA'"

\* the schema a call looks in: the one given, else the dialect's default,
\* and nothing when that is absent or empty
SchemaLookedIn(schema) ==
    LET sch == IF schema.none THEN default_schema_name ELSE schema
    IN  IF sch.none THEN <<>> ELSE sch.s

\* C16: in every catalog query that takes a schema or a table name, the
\* name is upper-cased and its single quotes doubled before it is put
\* between the quotes of the libname or memname literal: read as SQL, the
\* literal holds the upper-cased name, is closed by the query's own closing
\* quote, and is followed by the query's fixed text; an absent schema is the
\* dialect's default schema and an empty one the empty literal.
C16_LiteralsHoldTheNames ==
    intro.method \in BySchema \cup ByTable /\ intro.query.text # <<>> =>
        LET text == intro.query.text
            lib == ScanLiteral(SubSeq(text, 3, Len(text)))
            mem == ScanLiteral(SubSeq(lib.rest, 3, Len(lib.rest)))
        IN  /\ text[1] = "WHERE libname = " /\ text[2] = "'"
            /\ lib.closed
            /\ lib.value = Upper(SchemaLookedIn(intro.query.schema))
            /\ intro.method \in BySchema => lib.rest = <<FixedRest(intro.method)>>
            /\ intro.method \in ByTable =>
                    /\ Len(lib.rest) >= 2
                    /\ lib.rest[1] = " AND memname = " /\ lib.rest[2] = "'"
                    /\ mem.closed
                    /\ mem.value = Upper(intro.query.table_name.s)
                    /\ mem.rest = <<FixedRest(intro.method)>>

\* has_table was asked for a table whose name ends in a quote, in a schema
\* whose name holds one, and the query was sent
C16_Witness ==
    /\ intro.method = "has_table"
    /\ intro.query.schema = Str(<<"o","'","b">>)
    /\ intro.query.table_name = Str(<<"b","'">>)
    /\ intro.query.text # <<>>
    /\ ~intro.failed

(***************************************************************************)
(* Claims about the shared type cache, checked under SpecThreads.          *)
(***************************************************************************)
\* the type the function gives for a triple when it is called without a cache
Uncached(key) == MapSasTypeCall(NoCache, key).value

\* C18: under every interleaving of calls that share the cache without a
\* lock, each caller receives the type the uncached function gives for its
\* own triple, every cache key maps to the uncached function's type for
\* that key in every reachable state, and no entry is ever removed or
\* changed.
C18_BenignRace ==
    /\ [](\A t \in Threads : threads[t].pc = "done" =>
            /\ threads[t].outcome = "return"
            /\ threads[t].value = Uncached(threads[t].args))
    /\ [](\A e \in cache : e.value = Uncached(e.key))
    /\ [](\A e1, e2 \in cache : e1.key = e2.key => e1 = e2)
    /\ [][\A e \in cache : e \in cache']_vars

\* a thread that missed is about to store its triple although another
\* thread stored the same triple in the meantime, and the cache holds a
\* triple that differs from it in the format only
C18_Witness ==
    \E t \in Threads :
        /\ threads[t].pc = "store"
        /\ InDict(TheCache, CacheKey(threads[t].args)) = "yes"
        /\ Cardinality(cache) >= 2
        /\ \E e \in cache :
                /\ e.key.format_str # threads[t].args.format_str
                /\ e.key.length = threads[t].args.length
                /\ e.key.col_type = threads[t].args.col_type

====
